---- MODULE Spec2Model ----
(***************************************************************************)
(* A model of cpp-mcts: the Node class and the MCTS driver in its two      *)
(* revisions (include/mcts/mcts.hpp, "hpp", and src/mcts.h, "h"), driven   *)
(* by the combination-lock game of test/TestGame.hpp (states, actions,     *)
(* expansion and playout strategies, scoring, back propagation,            *)
(* termination check), by playGame of test/TestGame.cpp and by the Node    *)
(* unit tests of test/Node.cpp.                                            *)
(*                                                                         *)
(* Representation.                                                         *)
(*  - The heap of Nodes is the sequence `nodes`; a Node's address is its   *)
(*    index, the null pointer is 0 and the root of the engine's tree is at *)
(*    address 1.  A shared_ptr is the address it holds.                    *)
(*  - A float score is an exact multiple of 1/ScoreDen (ScoreDen is the    *)
(*    game's numTurns, the denominator of every TestGameScoring score) and *)
(*    is held as its integer numerator.  A float that has been divided or  *)
(*    has had the UCT exploration term added is a record                   *)
(*    [kind, num, den, add]: NaN, -FLT_MAX, or the value                   *)
(*    num/den + add/10^5 in score units.  Rounding of float arithmetic is  *)
(*    not modelled.                                                        *)
(*  - sqrt and log are computed in fixed point (four decimals).            *)
(***************************************************************************)
EXTENDS Integers, Sequences, FiniteSets, TLC

(***************************************************************************)
(* Bounds of the model.                                                    *)
(***************************************************************************)
MaxTurns == 2        \* numTurns of a game of the driver specification
MaxChoices == 1      \* maxChoice of a game of the driver specification
MaxIter == 7         \* clock-driven iterations of one engine
MaxCalls == 2        \* calculateAction calls on one engine
MaxEngines == 2      \* engines constructed one after the other
DrawRange == 2       \* raw values of one draw of the selection generator
MaxPool == 3         \* Nodes built by the Node unit test
MaxUpdates == 3      \* update() calls of the Node unit test
MaxAdds == 2         \* addChild() calls of the Node unit test
MaxScore == 2        \* the scores passed to update(), in halves
GameTurns == 3       \* numTurns of a game of playGame
GameChoices == 2     \* maxChoice of a game of playGame
GameIters == 10      \* the iteration count playGame sets
TTTEmpty == 3        \* empty squares of a tic-tac-toe root position
TTTIters == 9        \* minIterations of a tic-tac-toe engine
MaxObjects == 4      \* MCTS objects a caller makes
MaxGate == 2         \* the greatest setMinT() of the small thresholds
MaxNeg == 2          \* the least setMinIterations() is -MaxNeg

(***************************************************************************)
(* Program constants.                                                      *)
(***************************************************************************)
DEFAULT_MIN_ITERATIONS == 0
DEFAULT_C10 == 5             \* DEFAULT_C = 0.5, in tenths
DEFAULT_MIN_T == 5
DEFAULT_MIN_VISITS == 5

Null == 0
Root == 1

VARIABLES
    game,           \* the embedder: numTurns, maxChoice, the Scoring's correctNumbers,
                    \* the playout hooks and the first draw of a mt19937(42)
    cfg,            \* the revision of the driver and the configuration the setters leave
    state,          \* the caller's TestGameState
    nodes,          \* the heap of Nodes of the engine's tree
    currentNodeID,  \* MCTS::currentNodeID
    iterations,     \* MCTS::iterations
    genPos,         \* draws taken from MCTS::generator
    stream,         \* the output of a default-seeded mt19937, as far as revealed
    pc,             \* "idle", "search" inside calculateAction, "crashed", or
                    \* "done" when playGame has returned
    elapsed,        \* system_clock::now() - old of the running search
    callIters,      \* iterations of the loop in the running (or last) call
    total,          \* iterations of the loop since the engine was constructed
    genCalls,       \* generateRandom calls made by the fallback of calculateAction
    log,            \* per engine, the actions its calculateAction calls returned
    updates,        \* per Node of the unit test, the scores passed to update()
    added,          \* per Node of the unit test, the children passed to addChild()
    passed,         \* per Node of the engine's tree, the iterations whose playout
                    \* origin was the Node or one of its descendants
    own,            \* the engines made and destroyed by a caller, and how often
                    \* each policy object was deleted
    gui             \* the tic-tac-toe window: its Board, the player selection,
                    \* the timer and the connection of the scene's signal

vars == <<game, cfg, state, nodes, currentNodeID, iterations, genPos, stream,
          pc, elapsed, callIters, total, genCalls, log, updates, added, passed,
          own, gui>>

engineVars == <<game, cfg, state, currentNodeID, iterations, genPos, stream, pc,
                elapsed, callIters, total, genCalls, log, passed>>
testVars == <<updates, added, own, gui>>

\* No engine has been made
NoEngines == [engines |-> <<>>, deletes |-> <<>>]

\* No window has been made
NoGUI == [shown |-> FALSE]

(***************************************************************************)
(* Floats.                                                                 *)
(***************************************************************************)
NaN == [kind |-> "nan", num |-> 0, den |-> 1, add |-> 0]
Lowest == [kind |-> "lowest", num |-> 0, den |-> 1, add |-> 0]   \* -FLT_MAX
Fin(num, den, add) == [kind |-> "fin", num |-> num, den |-> den, add |-> add]

\* a > b on floats: false when either is NaN
FloatGt(a, b) ==
    /\ a.kind = "fin"
    /\ \/ b.kind = "lowest"
       \/ /\ b.kind = "fin"
          /\ a.num * b.den * 100000 + a.add * a.den * b.den
               > b.num * a.den * 100000 + b.add * a.den * b.den

FloatEq(a, b) ==
    /\ a.kind = b.kind
    /\ a.kind # "nan"
    /\ a.kind = "fin" =>
          a.num * b.den * 100000 + a.add * a.den * b.den
               = b.num * a.den * 100000 + b.add * a.den * b.den

\* floor(ln(n) * 10^8)
LnTable == << 0, 69314718, 109861228, 138629436, 160943791, 179175946,
              194591014, 207944154, 219722457, 230258509, 239789527,
              248490664, 256494935, 263905732, 270805020, 277258872,
              283321334, 289037175, 294443897, 299573227, 304452243,
              309104245, 313549421, 317805383, 321887582, 325809653,
              329583686, 333220451, 336729582, 340119738, 343398720,
              346573590 >>

RECURSIVE ISqrtIn(_, _, _)
ISqrtIn(x, lo, hi) ==
    IF hi - lo <= 1 THEN lo
    ELSE LET mid == (lo + hi) \div 2
         IN IF mid * mid <= x THEN ISqrtIn(x, mid, hi) ELSE ISqrtIn(x, lo, mid)

\* floor(sqrt(x)), 0 <= x < 2^30
ISqrt(x) == ISqrtIn(x, 0, 32768)

\* (float)sqrt(log(N) / n) in units of 10^-4, for N >= 1 and n >= 1
SqrtLogOver(N, n) == ISqrt(LnTable[N] \div n)

(***************************************************************************)
(* The combination-lock game: test/TestGame.hpp.                           *)
(***************************************************************************)
TestGameState(numTurns, maxChoice) ==
    [numTurns |-> numTurns, maxChoice |-> maxChoice, choices |-> <<>>]

addChoice(s, choice) == [s EXCEPT !.choices = Append(@, choice)]

\* TestGameAction: the action is its choice; a default action chooses 0
DefaultAction == 0

execute(action, s) == addChoice(s, action)

\* TestGameExpansionStrategy
NewExpansion == [currentChoice |-> 0]

\* returns the incremented choice (++currentChoice for currentChoice++)
generateNextPre(expansion) ==
    [action |-> expansion.currentChoice + 1,
     expansion |-> [expansion EXCEPT !.currentChoice = @ + 1]]

generateNext(expansion) ==
    [action |-> expansion.currentChoice,
     expansion |-> [expansion EXCEPT !.currentChoice = @ + 1]]

canGenerateNext(expansion, s) == expansion.currentChoice <= s.maxChoice

\* a strategy seeded from the clock
generateRandomUnseeded(s) == 0 .. s.maxChoice

\* TestGamePlayoutStrategy::generateRandom on a strategy constructed for s: the
\* actions it can store.  The strategy of the test seeds a new mt19937 with 42
\* at every construction, so each one-shot strategy yields the same first draw;
\* "random" hooks stand for an embedder whose strategy draws from a real source
\* of randomness.
generateRandom(s) ==
    IF game.hooks = "seeded" THEN {game.draw} ELSE 0 .. s.maxChoice

\* counts the numbers that differ
scoreMiss(s) ==
    Cardinality({i \in 1 .. Len(s.choices) :
                   i <= game.numTurns /\ s.choices[i] # game.correctNumbers[i]})

\* TestGameScoring::score: (size - difference) / size, in units of 1/size; the
\* driver scores terminal states only, where size is numTurns
score(s) ==
    Len(s.choices)
      - Cardinality({i \in 1 .. Len(s.choices) : s.choices[i] # game.correctNumbers[i]})

\* TestGameBackPropagation::updateScore
updateScore(s, backpropScore) == backpropScore

\* TestGameTerminationCheck::isTerminal
isTerminal(s) == Len(s.choices) = s.numTurns

(***************************************************************************)
(* Tic-tac-toe: samples/tictactoe.  A Board is [board, current, turns];    *)
(* the square (x, y) is board[y * 3 + x + 1].  A TTTAction is [x, y].  The *)
(* scores 0, 0.75 and 1 are 0, 3 and 4 in units of 1/4.                    *)
(***************************************************************************)
IsBoard(s) == "board" \in DOMAIN s

Board ==
    [board |-> [i \in 1 .. 9 |-> "NONE"], current |-> "CROSS", turns |-> 0]

position(b, x, y) == b.board[y * 3 + x + 1]

play(b, x, y) ==
    [board |-> [b.board EXCEPT ![y * 3 + x + 1] = b.current],
     current |-> IF b.current = "CROSS" THEN "CIRCLE" ELSE "CROSS",
     turns |-> b.turns + 1]

\* The lines of WIN_CHECK, in the order won() tries them (0-based squares)
WinLines ==
    << <<0, 1, 2>>, <<3, 4, 5>>, <<6, 7, 8>>, <<0, 3, 6>>, <<1, 4, 7>>,
       <<2, 5, 8>>, <<0, 4, 8>>, <<2, 4, 6>> >>

RECURSIVE wonFrom(_, _)
wonFrom(b, i) ==
    IF i > Len(WinLines) THEN "NONE"
    ELSE LET l == WinLines[i]
         IN IF /\ b.board[l[1] + 1] = b.board[l[2] + 1]
               /\ b.board[l[2] + 1] = b.board[l[3] + 1]
               /\ b.board[l[1] + 1] # "NONE"
            THEN b.board[l[1] + 1]
            ELSE wonFrom(b, i + 1)

won(b) == wonFrom(b, 1)

\* TTTAction(): x(-1), y(-1)
TTTAction == [x |-> -1, y |-> -1]

\* TTTAction::execute
TTTexecute(action, b) == play(b, action.x, action.y)

\* The loops of searchNextPossibleMove from (x, y)
RECURSIVE scanFrom(_, _, _)
scanFrom(b, x, y) ==
    IF x >= 3 THEN [currentX |-> -1, currentY |-> -1]
    ELSE IF y >= 3 THEN scanFrom(b, x + 1, 0)
    ELSE IF position(b, x, y) = "NONE" THEN [currentX |-> x, currentY |-> y]
    ELSE scanFrom(b, x, y + 1)

searchNextPossibleMove(b, x, y) ==
    IF y = 3 THEN scanFrom(b, x + 1, 0) ELSE scanFrom(b, x, y)

\* TTTExpansionStrategy::TTTExpansionStrategy
TTTExpansionStrategy(b) == searchNextPossibleMove(b, 0, 0)

\* TTTExpansionStrategy::generateNext
TTTgenerateNext(expansion, b) ==
    [action |-> [x |-> expansion.currentX, y |-> expansion.currentY],
     expansion |-> searchNextPossibleMove(b, expansion.currentX,
                                          expansion.currentY + 1)]

TTTcanGenerateNext(expansion) ==
    expansion.currentX # -1 /\ expansion.currentY # -1

\* TTTPlayoutStrategy::generateRandom: the squares its loop can end on.  The
\* generator is seeded from a random_device and the loop draws until it hits an
\* empty square: on a board without one it never ends.
TTTgenerateRandom(b) ==
    {[x |-> x, y |-> y] : <<x, y>> \in
        {p \in (0 .. 2) \X (0 .. 2) : position(b, p[1], p[2]) = "NONE"}}

\* the score is inverted on the opponent's turn
TTTupdateScoreOwn(b, backpropScore) ==
    IF b.current # game.player THEN 4 - backpropScore ELSE backpropScore

\* TTTBackpropagation::updateScore, for the player the engine moves for
TTTupdateScore(b, backpropScore) ==
    IF b.current = game.player THEN 4 - backpropScore ELSE backpropScore

\* TTTTerminationCheck::isTerminal
TTTisTerminal(b) == won(b) # "NONE" \/ b.turns = 9

\* TTTScoring::score
TTTscore(b) ==
    IF won(b) = game.player THEN 4
    ELSE IF won(b) # "NONE" THEN 0
    ELSE 3

(***************************************************************************)
(* The mocks of the Node unit test: test/Mocks.hpp.                        *)
(***************************************************************************)
MockState == [mock |-> TRUE]
MockAction == [mock |-> TRUE]

(***************************************************************************)
(* The embedder's hooks as the driver calls them: the template arguments   *)
(* T, A, E, P and the policy objects handed to the constructor.            *)
(***************************************************************************)
\* The denominator of the scores of the game
ScoreDen == IF "player" \in DOMAIN game THEN 4 ELSE game.numTurns

\* A action;
NewAction(s) == IF IsBoard(s) THEN TTTAction ELSE DefaultAction

\* action.execute(state)
Action_execute(action, s) ==
    IF IsBoard(s) THEN TTTexecute(action, s) ELSE execute(action, s)

\* The embedder's E is an enumerator like MockExpansionStrategy: it has no
\* action from the start, and its generateNext() returns a default action
IsStuck == game.hooks = "stuck"

\* expansion.generateNext()
E_generateNext(expansion, s) ==
    IF IsBoard(s) THEN TTTgenerateNext(expansion, s)
    ELSE IF IsStuck THEN [action |-> DefaultAction, expansion |-> expansion]
    ELSE generateNext(expansion)

\* expansion.canGenerateNext()
E_canGenerateNext(expansion, s) ==
    IF s = MockState \/ IsStuck THEN FALSE
    ELSE IF IsBoard(s) THEN TTTcanGenerateNext(expansion)
    ELSE canGenerateNext(expansion, s)

\* P playout(&state); playout.generateRandom(action): the actions it can store
P_generateRandom(s) ==
    IF IsBoard(s) THEN TTTgenerateRandom(s) ELSE generateRandom(s)

\* backprop->updateScore(state, score)
backprop_updateScore(s, sc) ==
    IF IsBoard(s) THEN TTTupdateScore(s, sc) ELSE updateScore(s, sc)

\* termination->isTerminal(state)
termination_isTerminal(s) ==
    IF IsBoard(s) THEN TTTisTerminal(s) ELSE isTerminal(s)

\* scoring->score(state)
scoring_score(s) == IF IsBoard(s) THEN TTTscore(s) ELSE score(s)

(***************************************************************************)
(* Node: include/mcts/mcts.hpp (Node of src/mcts.h has the same members    *)
(* and the same methods).                                                  *)
(***************************************************************************)
\* expansion(&this->data): the E of the Node's type, constructed on its state
NewStrategy(data) ==
    IF data = MockState THEN [mock |-> TRUE]
    ELSE IF IsBoard(data) THEN TTTExpansionStrategy(data)
    ELSE NewExpansion

Node(id, data, parent, action) ==
    [id |-> id, data |-> data, parent |-> parent, children |-> <<>>,
     action |-> action, expansion |-> NewStrategy(data),
     numVisits |-> 0, scoreSum |-> 0]

\* push_front for push_back
addChildFront(node, child) == [node EXCEPT !.children = <<child>> \o @]

addChild(node, child) == [node EXCEPT !.children = Append(@, child)]

shouldExpand(node) ==
    node.children = <<>> \/ E_canGenerateNext(node.expansion, node.data)

\* the visit is not counted
updateNoVisit(node, sc) == [node EXCEPT !.scoreSum = @ + sc]

update(node, sc) ==
    [node EXCEPT !.scoreSum = @ + sc, !.numVisits = @ + 1]

\* scoreSum / numVisits: 0/0 is NaN (scoreSum is 0 whenever numVisits is)
getAvgScore(node) ==
    IF node.numVisits = 0 THEN NaN ELSE Fin(node.scoreSum, node.numVisits, 0)

(***************************************************************************)
(* MCTS: include/mcts/mcts.hpp and src/mcts.h.                             *)
(***************************************************************************)
\* <= for <
iterationsLessEq(its, minIts) ==
    IF cfg.rev = "hpp" /\ minIts < 0 THEN TRUE ELSE its <= minIts

\* iterations < minIterations.  hpp: the unsigned counter against the int, which
\* is converted to unsigned (a negative minIterations is 2^32 + minIterations);
\* h: a long against the int.
iterationsLess(its, minIts) ==
    IF cfg.rev = "hpp" /\ minIts < 0 THEN TRUE ELSE its < minIts

\* The condition of the while loop of search()
loopCond ==
    elapsed < cfg.time \/ iterationsLess(iterations, cfg.minIterations)

\* n->getAvgScore() + C * (float)sqrt(log(node.getNumVisits()) / n->getNumVisits())
uctScore(node, n) ==
    IF n.numVisits = 0 \/ node.numVisits = 0 THEN NaN
    ELSE Fin(n.scoreSum, n.numVisits,
             cfg.C10 * SqrtLogOver(node.numVisits, n.numVisits) * ScoreDen)

\* score >= bestScore for score > bestScore: the last child with the greatest score
RECURSIVE uctLoopLast(_, _, _, _, _)
uctLoopLast(ns, node, i, best, bestScore) ==
    IF i > Len(ns[node].children) THEN best
    ELSE LET n == ns[node].children[i]
             sc == uctScore(ns[node], ns[n])
         IN IF FloatGt(sc, bestScore) \/ FloatEq(sc, bestScore)
            THEN uctLoopLast(ns, node, i + 1, n, sc)
            ELSE uctLoopLast(ns, node, i + 1, best, bestScore)

\* The UCT loop of select(): the first child with the greatest score
RECURSIVE uctLoop(_, _, _, _, _)
uctLoop(ns, node, i, best, bestScore) ==
    IF i > Len(ns[node].children) THEN best
    ELSE LET n == ns[node].children[i]
             sc == uctScore(ns[node], ns[n])
         IN IF FloatGt(sc, bestScore)
            THEN uctLoop(ns, node, i + 1, n, sc)
            ELSE uctLoop(ns, node, i + 1, best, bestScore)

\* The generator's output at position pos: the revealed one, or any raw value
Draws(pos, str) ==
    IF pos < Len(str) THEN {str} ELSE {Append(str, v) : v \in 0 .. (DrawRange - 1)}

\* select(node): the outcomes [child, generator position, stream].  The random
\* branch draws an index from the engine's generator (hpp) or from rand() (h).
select(ns, node, pos, str) ==
    IF ns[node].numVisits < cfg.minVisits
    THEN {[child |-> ns[node].children[(s[pos + 1] % Len(ns[node].children)) + 1],
           pos |-> pos + 1, str |-> s] : s \in Draws(pos, str)}
    ELSE {[child |-> uctLoop(ns, node, 1, Null, Lowest), pos |-> pos, str |-> str]}

\* The selection loop of search():
\* while (!selected->shouldExpand()) selected = select(*selected)
RECURSIVE descend(_, _, _, _)
descend(ns, selected, pos, str) ==
    IF selected = Null \/ shouldExpand(ns[selected])
    THEN {[selected |-> selected, pos |-> pos, str |-> str]}
    ELSE UNION {descend(ns, o.child, o.pos, o.str) : o \in select(ns, selected, pos, str)}

\* the new Node is given the action the enumerator would produce next
expandNextStale(ns, node, newID) ==
    LET g == E_generateNext(ns[node].expansion, ns[node].data)
        expandedData == Action_execute(g.action, ns[node].data)
        next == E_generateNext(g.expansion, ns[node].data)
        newNode == Node(newID, expandedData, node, next.action)
        newAddr == Len(ns) + 1
    IN Append([ns EXCEPT ![node] = addChild([@ EXCEPT !.expansion = g.expansion], newAddr)],
              newNode)

\* currentNodeID++ for ++currentNodeID: the new Node gets the id before the increment
expandNextPostInc(ns, node, newID) ==
    LET g == E_generateNext(ns[node].expansion, ns[node].data)
        expandedData == Action_execute(g.action, ns[node].data)
        newNode == Node(newID - 1, expandedData, node, g.action)
        newAddr == Len(ns) + 1
    IN Append([ns EXCEPT ![node] = addChild([@ EXCEPT !.expansion = g.expansion], newAddr)],
              newNode)

\* the enumerator of the expanded Node is left where it was
expandNextKeepCursor(ns, node, newID) ==
    LET g == E_generateNext(ns[node].expansion, ns[node].data)
        expandedData == Action_execute(g.action, ns[node].data)
        newNode == Node(newID, expandedData, node, g.action)
        newAddr == Len(ns) + 1
    IN Append([ns EXCEPT ![node] = addChild(@, newAddr)], newNode)

\* the action is executed on the state of the expanded Node, not on a copy
expandNextInPlace(ns, node, newID) ==
    LET g == E_generateNext(ns[node].expansion, ns[node].data)
        expandedData == Action_execute(g.action, ns[node].data)
        newNode == Node(newID, expandedData, node, g.action)
        newAddr == Len(ns) + 1
    IN Append([ns EXCEPT ![node] = addChild([@ EXCEPT !.expansion = g.expansion,
                                                       !.data = expandedData], newAddr)],
              newNode)

\* the new Node is given the root as its parent
expandNextToRoot(ns, node, newID) ==
    LET g == E_generateNext(ns[node].expansion, ns[node].data)
        expandedData == Action_execute(g.action, ns[node].data)
        newNode == Node(newID, expandedData, Root, g.action)
        newAddr == Len(ns) + 1
    IN Append([ns EXCEPT ![node] = addChild([@ EXCEPT !.expansion = g.expansion], newAddr)],
              newNode)

\* expandNext(node): the heap with the new Node, which is its last element
expandNext(ns, node, newID) ==
    LET g == E_generateNext(ns[node].expansion, ns[node].data)
        expandedData == Action_execute(g.action, ns[node].data)
        newNode == Node(newID, expandedData, node, g.action)
        newAddr == Len(ns) + 1
    IN Append([ns EXCEPT ![node] = addChild([@ EXCEPT !.expansion = g.expansion], newAddr)],
              newNode)

\* every Node's adjusted score is what its parent is given to adjust
RECURSIVE backPropChained(_, _, _)
backPropChained(ns, node, sc) ==
    LET adjusted == backprop_updateScore(ns[node].data, sc)
        ns1 == [ns EXCEPT ![node] = update(@, adjusted)]
    IN IF ns[node].parent = Null THEN ns1
       ELSE backPropChained(ns1, ns[node].parent, adjusted)

\* only the Node the playout started at is updated
backPropOnce(ns, node, sc) ==
    [ns EXCEPT ![node] = update(@, backprop_updateScore(@.data, sc))]

\* stops below the root
RECURSIVE backPropBelowRoot(_, _, _)
backPropBelowRoot(ns, node, sc) ==
    IF ns[node].parent = Null THEN ns
    ELSE backPropBelowRoot([ns EXCEPT ![node] = update(@, backprop_updateScore(@.data, sc))],
                           ns[node].parent, sc)

\* backProp(node, score).  hpp passes every Node's score through updateScore;
\* h updates the root with the score as it is.
RECURSIVE backProp(_, _, _)
backProp(ns, node, sc) ==
    IF ns[node].parent = Null /\ cfg.rev = "h"
    THEN [ns EXCEPT ![node] = update(@, sc)]
    ELSE LET ns1 == [ns EXCEPT ![node] = update(@, backprop_updateScore(@.data, sc))]
         IN IF ns[node].parent = Null THEN ns1
            ELSE backProp(ns1, ns[node].parent, sc)

\* The playout loop of simulate(): the terminal states it can end in
RECURSIVE playouts(_)
playouts(s) ==
    IF termination_isTerminal(s) THEN {s}
    ELSE UNION {playouts(Action_execute(a, s)) : a \in P_generateRandom(s)}

\* the score is propagated from the parent of the Node the playout started at
simulateFromParent(ns, node) ==
    {backProp(ns, IF ns[node].parent = Null THEN node ELSE ns[node].parent,
              scoring_score(fin)) : fin \in playouts(ns[node].data)}

\* simulate(node): the heaps it can leave
simulate(ns, node) ==
    {backProp(ns, node, scoring_score(fin)) : fin \in playouts(ns[node].data)}

\* the selected Node is tested for an exhausted enumerator, not for a terminal
\* state
searchStepNoTerminal(ns, selected, id) ==
    IF ~E_canGenerateNext(ns[selected].expansion, ns[selected].data)
    THEN {[nodes |-> backProp(ns, selected, scoring_score(ns[selected].data)),
           currentNodeID |-> id, origin |-> selected]}
    ELSE IF ns[selected].numVisits >= cfg.minT
    THEN LET expanded == expandNext(ns, selected, id + 1)
         IN {[nodes |-> n, currentNodeID |-> id + 1, origin |-> Len(expanded)] :
                n \in simulate(expanded, Len(expanded))}
    ELSE {[nodes |-> n, currentNodeID |-> id, origin |-> selected] :
             n \in simulate(ns, selected)}

\* the selected Node is expanded whatever its numVisits
searchStepNoGate(ns, selected, id) ==
    IF termination_isTerminal(ns[selected].data)
    THEN {[nodes |-> n, currentNodeID |-> id, origin |-> selected] :
             n \in {backProp(ns, selected, scoring_score(ns[selected].data))}}
    ELSE LET expanded == expandNext(ns, selected, id + 1)
         IN {[nodes |-> n, currentNodeID |-> id + 1, origin |-> Len(expanded)] :
                n \in simulate(expanded, Len(expanded))}

\* the expansion gate is numVisits > minT
searchStepGt(ns, selected, id) ==
    IF termination_isTerminal(ns[selected].data)
    THEN {[nodes |-> n, currentNodeID |-> id, origin |-> selected] :
             n \in {backProp(ns, selected, scoring_score(ns[selected].data))}}
    ELSE IF ns[selected].numVisits > cfg.minT
    THEN LET expanded == expandNext(ns, selected, id + 1)
         IN {[nodes |-> n, currentNodeID |-> id + 1, origin |-> Len(expanded)] :
                n \in simulate(expanded, Len(expanded))}
    ELSE {[nodes |-> n, currentNodeID |-> id, origin |-> selected] :
             n \in simulate(ns, selected)}

\* The body of the loop of search() after the selection: the outcomes
\* [nodes, currentNodeID]
searchStep(ns, selected, id) ==
    IF termination_isTerminal(ns[selected].data)
    THEN {[nodes |-> backProp(ns, selected, scoring_score(ns[selected].data)),
           currentNodeID |-> id, origin |-> selected]}
    ELSE IF ns[selected].numVisits >= cfg.minT
         THEN LET expanded == expandNext(ns, selected, id + 1)
              IN {[nodes |-> n, currentNodeID |-> id + 1, origin |-> Len(expanded)] :
                     n \in simulate(expanded, Len(expanded))}
         ELSE {[nodes |-> n, currentNodeID |-> id, origin |-> selected] :
                  n \in simulate(ns, selected)}

\* One more iteration for the Node n and the Nodes its parent links lead to
RECURSIVE countPass(_, _, _)
countPass(ns, n, counts) ==
    IF n = Null THEN counts
    ELSE countPass(ns, ns[n].parent, [counts EXCEPT ![n] = @ + 1])

\* >= for >: the last child with the greatest average score
RECURSIVE bestLoopGe(_, _, _, _)
bestLoopGe(ns, i, best, bestScore) ==
    IF i > Len(ns[Root].children) THEN best
    ELSE LET c == ns[Root].children[i]
             sc == getAvgScore(ns[c])
         IN IF FloatGt(sc, bestScore) \/ FloatEq(sc, bestScore)
            THEN bestLoopGe(ns, i + 1, c, sc)
            ELSE bestLoopGe(ns, i + 1, best, bestScore)

\* The result loop of calculateAction(): the first child of the root with the
\* greatest average score
RECURSIVE bestLoop(_, _, _, _)
bestLoop(ns, i, best, bestScore) ==
    IF i > Len(ns[Root].children) THEN best
    ELSE LET c == ns[Root].children[i]
             sc == getAvgScore(ns[c])
         IN IF FloatGt(sc, bestScore)
            THEN bestLoop(ns, i + 1, c, sc)
            ELSE bestLoop(ns, i + 1, best, bestScore)

\* the playout strategy is built on the root's own state and the action is
\* executed on it
fallbackInPlace(ns) ==
    {[action |-> a, nodes |-> [ns EXCEPT ![Root].data = Action_execute(a, @)]] :
        a \in P_generateRandom(ns[Root].data)}

\* The fallback of calculateAction() in hpp, "if no expansion took place, simply
\* execute a random action": T state(root->getData()); P(&state).generateRandom(action).
\* The outcomes [action, heap].
fallback(ns) ==
    LET copy == ns[Root].data
    IN {[action |-> a, nodes |-> ns] : a \in P_generateRandom(copy)}

\* What best->getAction() on a null best (h, which has no fallback) can return
\* when it does not crash: any action
Garbage(s) ==
    IF IsBoard(s) THEN {[x |-> x, y |-> y] : <<x, y>> \in (-1 .. 2) \X (-1 .. 2)}
    ELSE 0 .. (s.maxChoice + 1)

\* MCTS::MCTS: the root Node holds (a copy of) rootData
NewTree(rootData) == <<Node(0, rootData, Null, NewAction(rootData))>>

\* The draws taken from the generator of select() when an engine is constructed:
\* hpp's generator is a member of the engine, rand() of h is global
constructGenPos(pos) == IF cfg.rev = "hpp" THEN 0 ELSE pos

(***************************************************************************)
(* Observations.                                                           *)
(***************************************************************************)
engineNo == Len(log)
calls == Len(log[engineNo])
result == log[engineNo][calls]
returned == pc = "idle" /\ calls >= 1

(***************************************************************************)
(* Initial states.                                                         *)
(***************************************************************************)
Games(turns, choices, hooks) ==
    UNION {UNION {[numTurns : {t}, maxChoice : {m},
                   correctNumbers : [1 .. t -> 0 .. m],
                   hooks : {"seeded"} \cap hooks,
                   draw : 0 .. m]
                  \cup
                  [numTurns : {t}, maxChoice : {m},
                   correctNumbers : [1 .. t -> 0 .. m],
                   hooks : {"random"} \cap hooks,
                   draw : {0}] : m \in choices} : t \in turns}

\* The choices made so far in a root state, at most maxLen of them
Prefixes(g, maxLen) ==
    UNION {[1 .. k -> 0 .. g.maxChoice] : k \in (0 .. g.numTurns) \cap (0 .. maxLen)}

Configs ==
    [rev : {"hpp", "h"}, time : {0}, minIterations : 0 .. MaxIter,
     C10 : {DEFAULT_C10}, minT : {0, DEFAULT_MIN_T},
     minVisits : {0, DEFAULT_MIN_VISITS}]
    \cup
    [rev : {"hpp", "h"}, time : {1}, minIterations : {DEFAULT_MIN_ITERATIONS, 3},
     C10 : {DEFAULT_C10}, minT : {0, DEFAULT_MIN_T},
     minVisits : {0, DEFAULT_MIN_VISITS}]

InitEngine(rootData) ==
    /\ nodes = NewTree(rootData)
    /\ currentNodeID = 0
    /\ iterations = 0
    /\ genPos = 0
    /\ stream = <<>>
    /\ pc = "idle"
    /\ elapsed = 0
    /\ callIters = 0
    /\ total = 0
    /\ genCalls = 0
    /\ log = <<(<<>>)>>
    /\ passed = <<0>>

InitWith(hooks, maxLen) ==
    /\ game \in Games(1 .. MaxTurns, 0 .. MaxChoices, hooks)
    /\ cfg \in Configs
    /\ \E p \in Prefixes(game, maxLen) :
          state = [TestGameState(game.numTurns, game.maxChoice) EXCEPT !.choices = p]
    /\ InitEngine(state)
    /\ updates = <<>>
    /\ added = <<>>
    /\ own = NoEngines
    /\ gui = NoGUI

Init == InitWith({"seeded", "random"}, MaxTurns)

(***************************************************************************)
(* Actions of the driver.                                                  *)
(***************************************************************************)
\* calculateAction() is entered: search() reads the clock
Call(maxCalls) ==
    /\ pc = "idle"
    /\ calls < maxCalls
    /\ pc' = "search"
    /\ elapsed' = 0
    /\ callIters' = 0
    /\ UNCHANGED <<game, cfg, state, nodes, currentNodeID, iterations, genPos,
                   stream, total, genCalls, log, passed, testVars>>

\* The clock advances during the search
Tick ==
    /\ pc = "search"
    /\ elapsed < cfg.time
    /\ elapsed' = elapsed + 1
    /\ UNCHANGED <<game, cfg, state, nodes, currentNodeID, iterations, genPos,
                   stream, pc, callIters, total, genCalls, log, passed, testVars>>

\* One iteration of the loop of search()
Iterate ==
    /\ pc = "search"
    /\ loopCond
    /\ \/ iterationsLess(iterations, cfg.minIterations) /\ cfg.minIterations >= 0
       \/ iterations < MaxIter
    /\ iterations' = iterations + 1
    /\ callIters' = callIters + 1
    /\ total' = total + 1
    /\ \E o \in descend(nodes, Root, genPos, stream) :
          /\ o.selected # Null
          /\ genPos' = o.pos
          /\ stream' = o.str
          /\ \E r \in searchStep(nodes, o.selected, currentNodeID) :
                /\ nodes' = r.nodes
                /\ currentNodeID' = r.currentNodeID
                /\ passed' = countPass(r.nodes, r.origin,
                                       passed \o [i \in 1 .. (Len(r.nodes) - Len(nodes)) |-> 0])
    /\ UNCHANGED <<game, cfg, state, pc, elapsed, genCalls, log, testVars>>

\* The loop of search() ends on a root without children and the loop of the
\* fallback's generateRandom() has no action to end on: calculateAction() does
\* not return
Hang ==
    /\ pc = "search"
    /\ ~loopCond
    /\ cfg.rev = "hpp"
    /\ bestLoop(nodes, 1, Null, Lowest) = Null
    /\ fallback(nodes) = {}
    /\ pc' = "hung"
    /\ UNCHANGED <<game, cfg, state, nodes, currentNodeID, iterations, genPos,
                   stream, elapsed, callIters, total, genCalls, log, passed, testVars>>

\* The loop of search() ends and calculateAction() returns the action of the best
\* child of the root, or, hpp, the action of the fallback
Finish ==
    /\ pc = "search"
    /\ ~loopCond
    /\ LET best == bestLoop(nodes, 1, Null, Lowest)
       IN \/ /\ best # Null
             /\ log' = [log EXCEPT ![engineNo] = Append(@, nodes[best].action)]
             /\ UNCHANGED <<nodes, genCalls>>
          \/ /\ best = Null
             /\ cfg.rev = "hpp"
             /\ \E f \in fallback(nodes) :
                   /\ log' = [log EXCEPT ![engineNo] = Append(@, f.action)]
                   /\ nodes' = f.nodes
             /\ genCalls' = genCalls + 1
    /\ pc' = "idle"
    /\ UNCHANGED <<game, cfg, state, currentNodeID, iterations, genPos,
                   stream, elapsed, callIters, total, passed, testVars>>

\* h: calculateAction() dereferences the null best: it crashes, or returns what
\* it reads
NullBest ==
    /\ pc = "search"
    /\ ~loopCond
    /\ cfg.rev = "h"
    /\ bestLoop(nodes, 1, Null, Lowest) = Null
    /\ \/ /\ pc' = "crashed"
          /\ log' = log
       \/ /\ pc' = "idle"
          /\ \E a \in Garbage(nodes[Root].data) :
                log' = [log EXCEPT ![engineNo] = Append(@, a)]
    /\ UNCHANGED <<game, cfg, state, nodes, currentNodeID, iterations, genPos,
                   stream, elapsed, callIters, total, genCalls, passed, testVars>>

\* The engine is destroyed and a new one is constructed on rootData, with the
\* same policies, and the same setters are called on it
NewEngine(rootData) ==
    /\ nodes' = NewTree(rootData)
    /\ currentNodeID' = 0
    /\ iterations' = 0
    /\ genPos' = constructGenPos(genPos)
    /\ total' = 0
    /\ elapsed' = 0
    /\ callIters' = 0
    /\ passed' = <<0>>
    /\ log' = Append(log, <<>>)

Construct ==
    /\ pc = "idle"
    /\ calls >= 1
    /\ engineNo < MaxEngines
    /\ NewEngine(state)
    /\ UNCHANGED <<game, cfg, state, stream, pc, genCalls, testVars>>

Next == Call(MaxCalls) \/ Tick \/ Iterate \/ Finish \/ NullBest

Spec == Init /\ [][Next]_vars

(***************************************************************************)
(* Claims on the driver.                                                   *)
(***************************************************************************)
rootChildren == nodes[Root].children

\* The choices the rules of the game allow in state s: a number from 0 to
\* maxChoice in each of the numTurns turns
LegalChoices(s) == IF Len(s.choices) < s.numTurns THEN 0 .. s.maxChoice ELSE {}

\* C1: when calculateAction has returned and the root has children, the action
\* returned is the action of a child whose mean score (scoreSum / numVisits) no
\* child exceeds and no earlier child reaches.
C1_BestMean ==
    (returned /\ rootChildren # <<>>) =>
        \E i \in 1 .. Len(rootChildren) :
            LET b == nodes[rootChildren[i]]
            IN /\ result = b.action
               /\ b.numVisits > 0
               /\ \A j \in 1 .. Len(rootChildren) :
                     LET c == nodes[rootChildren[j]]
                     IN /\ c.numVisits > 0
                        /\ c.scoreSum * b.numVisits <= b.scoreSum * c.numVisits
                        /\ j < i => c.scoreSum * b.numVisits < b.scoreSum * c.numVisits

\* a call has returned the first of two children that share the highest mean
C1_Witness ==
    /\ returned
    /\ Len(rootChildren) >= 2
    /\ LET a == nodes[rootChildren[1]]
           b == nodes[rootChildren[2]]
       IN /\ a.scoreSum * b.numVisits = b.scoreSum * a.numVisits
          /\ a.scoreSum > 0
          /\ result = a.action

\* C2: when the loop ends on a root without children, hpp's calculateAction
\* returns an action of one generateRandom call of a playout strategy (the first
\* draw of the seeded strategy; any choice of a random one) and leaves the heap,
\* the root's state included, as it is.
C2_Fallback ==
    [][(pc = "search" /\ pc' = "idle" /\ cfg.rev = "hpp" /\ rootChildren = <<>>) =>
          /\ nodes' = nodes
          /\ genCalls' = genCalls + 1
          /\ Len(log'[engineNo]) = calls + 1
          /\ log'[engineNo][calls + 1] \in 0 .. state.maxChoice
          /\ game.hooks = "seeded" => log'[engineNo][calls + 1] = game.draw]_vars

\* the fallback has returned an action that is not the default action
C2_Witness ==
    /\ returned
    /\ cfg.rev = "hpp"
    /\ rootChildren = <<>>
    /\ genCalls = calls
    /\ result # DefaultAction
    /\ total >= 1

C9_AlwaysLegal ==
    (returned /\ cfg.rev = "hpp") => result \in LegalChoices(state)

\* C9, amended: the action hpp's calculateAction returns is one of the actions
\* the root's expansion enumerator produces (0 .. maxChoice); it is legal, with a
\* legal successor, when the root state is not terminal.
C9_Enumerated ==
    (returned /\ cfg.rev = "hpp") =>
        /\ result \in 0 .. state.maxChoice
        /\ ~isTerminal(state) =>
              /\ result \in LegalChoices(state)
              /\ Len(execute(result, state).choices) <= state.numTurns

\* a call has returned the second action of the enumerator from the tree
C9_Witness ==
    /\ returned
    /\ cfg.rev = "hpp"
    /\ ~isTerminal(state)
    /\ Len(rootChildren) >= 2
    /\ result = 1

\* C10: at a root state with exactly one legal action, hpp's calculateAction
\* returns that action after any number k >= 1 of iterations.
C10_OnlyAction ==
    (returned /\ cfg.rev = "hpp" /\ total >= 1) =>
        \A a \in LegalChoices(state) : LegalChoices(state) = {a} => result = a

\* a call has returned the action of the only child of the root
C10_Witness ==
    /\ returned
    /\ cfg.rev = "hpp"
    /\ LegalChoices(state) = {0}
    /\ Len(rootChildren) = 1
    /\ nodes[rootChildren[1]].numVisits >= 2
    /\ result = 0

(***************************************************************************)
(* Two engines on the same root state, with the same configuration and the *)
(* deterministic hooks of the test game, one run after the other.          *)
(***************************************************************************)
InitDet == InitWith({"seeded"}, 0)

NextDet == Call(1) \/ Tick \/ Iterate \/ Finish \/ NullBest \/ Construct

SpecDet == InitDet /\ [][NextDet]_vars

\* C5, as claimed: two hpp engines constructed on the same root state with the
\* same configuration and deterministic hooks return the same action.
C5_SameAction ==
    (cfg.rev = "hpp" /\ engineNo = 2 /\ Len(log[1]) >= 1 /\ Len(log[2]) >= 1) =>
        log[1][1] = log[2][1]

\* C5, amended: they return the same action when the time budget is 0, so that
\* the number of iterations does not depend on the clock.
C5_SameActionNoClock ==
    (cfg.rev = "hpp" /\ cfg.time = 0 /\ engineNo = 2
       /\ Len(log[1]) >= 1 /\ Len(log[2]) >= 1) =>
        log[1][1] = log[2][1]

\* the second engine has returned after selecting children at random
C5_Witness ==
    /\ cfg.rev = "hpp"
    /\ cfg.time = 0
    /\ engineNo = 2
    /\ returned
    /\ genPos >= 2
    /\ Len(rootChildren) = 2
    /\ log[1][1] = 1

(***************************************************************************)
(* The Node tests of test/Node.cpp: MockNodes are built, updated and given *)
(* children.  nodes is the heap of the MockNodes; updates[n] and added[n]  *)
(* are the arguments of the update and addChild calls made on n.           *)
(***************************************************************************)
NoGame == [numTurns |-> 0, maxChoice |-> 0, correctNumbers |-> <<>>,
           hooks |-> "seeded", draw |-> 0]

DefaultConfig ==
    [rev |-> "hpp", time |-> 0, minIterations |-> DEFAULT_MIN_ITERATIONS,
     C10 |-> DEFAULT_C10, minT |-> DEFAULT_MIN_T, minVisits |-> DEFAULT_MIN_VISITS]

RECURSIVE SeqSum(_)
SeqSum(q) == IF q = <<>> THEN 0 ELSE q[1] + SeqSum(Tail(q))

RECURSIVE SeqLen(_)
SeqLen(q) == IF q = <<>> THEN 0 ELSE Len(q[1]) + SeqLen(Tail(q))

InitNode ==
    /\ game = NoGame
    /\ cfg = DefaultConfig
    /\ state = MockState
    /\ nodes = <<>>
    /\ updates = <<>>
    /\ added = <<>>
    /\ own = NoEngines
    /\ gui = NoGUI
    /\ currentNodeID = 0
    /\ iterations = 0
    /\ genPos = 0
    /\ stream = <<>>
    /\ pc = "test"
    /\ elapsed = 0
    /\ callIters = 0
    /\ total = 0
    /\ genCalls = 0
    /\ log = <<(<<>>)>>
    /\ passed = <<>>

\* buildMockNode(id, parent)
buildMockNode ==
    /\ pc = "test"
    /\ Len(nodes) < MaxPool
    /\ \E parent \in {Null} \cup (1 .. Len(nodes)) :
          nodes' = Append(nodes, Node(Len(nodes) + 1, MockState, parent, MockAction))
    /\ updates' = Append(updates, <<>>)
    /\ added' = Append(added, <<>>)
    /\ UNCHANGED <<own, gui, engineVars>>

\* node->update(score); the scores are multiples of 0.5
NodeUpdate ==
    /\ pc = "test"
    /\ SeqLen(updates) < MaxUpdates
    /\ \E n \in 1 .. Len(nodes), sc \in 0 .. MaxScore :
          /\ nodes' = [nodes EXCEPT ![n] = update(@, sc)]
          /\ updates' = [updates EXCEPT ![n] = Append(@, sc)]
    /\ UNCHANGED <<added, own, gui, engineVars>>

\* node->addChild(child)
NodeAddChild ==
    /\ pc = "test"
    /\ SeqLen(added) < MaxAdds
    /\ \E n \in 1 .. Len(nodes), child \in 1 .. Len(nodes) :
          /\ nodes' = [nodes EXCEPT ![n] = addChild(@, child)]
          /\ added' = [added EXCEPT ![n] = Append(@, child)]
    /\ UNCHANGED <<updates, own, gui, engineVars>>

NextNode == buildMockNode \/ NodeUpdate \/ NodeAddChild

SpecNode == InitNode /\ [][NextNode]_vars

\* C6: a Node no update has been called on has no visits and a NaN average
\* score, and has no children when it is new; after updates s1 .. sk, k >= 1, it
\* has k visits and the average score (s1 + ... + sk) / k.
C6_Update ==
    \A n \in 1 .. Len(nodes) :
        LET k == Len(updates[n])
            avg == getAvgScore(nodes[n])
        IN /\ nodes[n].numVisits = k
           /\ (k = 0 /\ added[n] = <<>>) => nodes[n].children = <<>>
           /\ k = 0 => avg = NaN
           /\ k >= 1 => /\ avg.kind = "fin"
                        /\ avg.add = 0
                        /\ avg.den > 0
                        /\ avg.num * k = SeqSum(updates[n]) * avg.den

\* update(0.5) and update(1.0) have given a Node 2 visits and the average 0.75
C6_Witness ==
    \E n \in 1 .. Len(nodes) :
        /\ updates[n] = <<1, 2>>
        /\ nodes[n].numVisits = 2
        /\ 4 * getAvgScore(nodes[n]).num = 6 * getAvgScore(nodes[n]).den

\* C7: the children of a Node are the Nodes addChild was called with on it, in
\* the order of the calls; a Node constructed with a parent is not among the
\* parent's children unless addChild was called with it.
C7_Children ==
    \A n \in 1 .. Len(nodes) :
        /\ nodes[n].children = added[n]
        /\ LET p == nodes[n].parent
           IN (p # Null /\ ~\E i \in 1 .. Len(added[p]) : added[p][i] = n) =>
                  ~\E i \in 1 .. Len(nodes[p].children) : nodes[p].children[i] = n

\* childA and childB have been added to the root, and a third Node constructed
\* with the root as parent has not
C7_Witness ==
    /\ Len(nodes) = MaxPool
    /\ \A n \in 2 .. Len(nodes) : nodes[n].parent = Root
    /\ nodes[Root].children = <<2, 3>>
    /\ \A n \in 4 .. Len(nodes) :
          ~\E i \in 1 .. Len(nodes[Root].children) : nodes[Root].children[i] = n

(***************************************************************************)
(* playGame of test/TestGame.cpp: every move is chosen by a new engine on  *)
(* a copy of the accumulated state, with time 0 and a fixed number of      *)
(* iterations.                                                             *)
(***************************************************************************)
GameConfigs ==
    [rev : {"hpp", "h"}, time : {0}, minIterations : 1 .. GameIters,
     C10 : {DEFAULT_C10}, minT : {DEFAULT_MIN_T}, minVisits : {DEFAULT_MIN_VISITS}]

InitGame ==
    /\ game \in Games(1 .. GameTurns, 0 .. GameChoices, {"seeded"})
    /\ cfg \in GameConfigs
    /\ state = TestGameState(game.numTurns, game.maxChoice)
    /\ InitEngine(state)
    /\ updates = <<>>
    /\ added = <<>>
    /\ own = NoEngines
    /\ gui = NoGUI

\* action->execute(state), and the next round of the loop of playGame
PlayMove ==
    /\ pc = "idle"
    /\ calls = 1
    /\ state' = execute(result, state)
    /\ IF engineNo < game.numTurns
       THEN /\ NewEngine(state')
            /\ pc' = "idle"
       ELSE /\ pc' = "done"
            /\ UNCHANGED <<nodes, currentNodeID, iterations, genPos, total,
                           elapsed, callIters, log, passed>>
    /\ UNCHANGED <<game, cfg, stream, genCalls, testVars>>

NextGame == Call(1) \/ Iterate \/ Finish \/ NullBest \/ PlayMove

SpecGame == InitGame /\ [][NextGame]_vars

\* the actions returned so far are the numbers of the target sequence
OnTarget ==
    \A i \in 1 .. Len(state.choices) :
        i <= game.numTurns /\ state.choices[i] = game.correctNumbers[i]

RECURSIVE playAll(_, _)
playAll(b, squares) ==
    IF squares = <<>> THEN b
    ELSE playAll(play(b, squares[1] % 3, squares[1] \div 3), Tail(squares))

\* Two positions after five moves, by the squares played
Openings == {playAll(Board, <<0, 1, 2, 5, 4>>), playAll(Board, <<0, 1, 2, 4, 3>>)}

\* The positions one move of the game leads to from b
Moves(b) ==
    IF TTTisTerminal(b) THEN {}
    ELSE {TTTexecute(a, b) : a \in TTTgenerateRandom(b)}

RECURSIVE Continuations(_, _)
Continuations(B, k) ==
    IF k = 0 THEN B ELSE B \cup Continuations(UNION {Moves(b) : b \in B}, k - 1)

TTTRoots == {b \in Continuations(Openings, 4) : 9 - b.turns <= TTTEmpty}

TTTGame(b) ==
    [numTurns |-> 9, maxChoice |-> 2, correctNumbers |-> <<>>,
     hooks |-> "random", draw |-> 0, player |-> b.current]

TTTConfigs ==
    [rev : {"hpp", "h"}, time : {0}, minIterations : 0 .. TTTIters,
     C10 : {DEFAULT_C10}, minT : {0}, minVisits : {0}]
    \cup
    [rev : {"hpp", "h"}, time : {0}, minIterations : 0 .. TTTIters,
     C10 : {DEFAULT_C10}, minT : {DEFAULT_MIN_T}, minVisits : {DEFAULT_MIN_VISITS}]

InitTTT ==
    /\ state \in TTTRoots
    /\ game = TTTGame(state)
    /\ cfg \in TTTConfigs
    /\ InitEngine(state)
    /\ updates = <<>>
    /\ added = <<>>
    /\ own = NoEngines
    /\ gui = NoGUI

NextTTT == Call(1) \/ Iterate \/ Finish \/ NullBest \/ Hang

SpecTTT == InitTTT /\ [][NextTTT]_vars

\* The moves of the rules of the game in position b, and those that win at once
EmptySquares(b) ==
    {[x |-> x, y |-> y] : <<x, y>> \in
        {p \in (0 .. 2) \X (0 .. 2) : b.board[p[2] * 3 + p[1] + 1] = "NONE"}}

WinningMoves(b) ==
    IF won(b) # "NONE" THEN {}
    ELSE {a \in EmptySquares(b) : won(play(b, a.x, a.y)) = b.current}

\* The children of the root that a is the action of
ChildOf(a) == {c \in 1 .. Len(nodes) : nodes[c].parent = Root /\ nodes[c].action = a}

\* C11, as claimed: from a position with a move that wins at once, hpp's
\* calculateAction returns such a move, and the root's child of the move has at
\* least minIterations / (number of root moves) visits.
C11_ReturnsWinningMove ==
    (returned /\ cfg.rev = "hpp" /\ WinningMoves(state) # {}) =>
        /\ result \in WinningMoves(state)
        /\ \E c \in ChildOf(result) :
              nodes[c].numVisits * Cardinality(EmptySquares(state)) >= cfg.minIterations

\* C11, amended: once the root has a child for a move that wins at once, that
\* child has been visited, its mean score is 1, no child has a higher mean, and
\* calculateAction returns the action of the first child of the root with mean
\* 1: the winning move, or a move before it all of whose simulations were won.
C11_WinningMean ==
    (returned /\ \E w \in WinningMoves(state) : ChildOf(w) # {}) =>
        /\ \A w \in WinningMoves(state) : \A c \in ChildOf(w) :
              nodes[c].numVisits >= 1 /\ nodes[c].scoreSum = 4 * nodes[c].numVisits
        /\ \A i \in 1 .. Len(rootChildren) :
              nodes[rootChildren[i]].scoreSum <= 4 * nodes[rootChildren[i]].numVisits
        /\ \E i \in 1 .. Len(rootChildren) :
              /\ result = nodes[rootChildren[i]].action
              /\ nodes[rootChildren[i]].scoreSum = 4 * nodes[rootChildren[i]].numVisits
              /\ \A j \in 1 .. (i - 1) :
                    nodes[rootChildren[j]].scoreSum < 4 * nodes[rootChildren[j]].numVisits

\* the winning move is returned from a root with all its moves expanded, after a
\* child that comes before it was visited
C11_Witness ==
    /\ returned
    /\ cfg.rev = "hpp"
    /\ result \in WinningMoves(state)
    /\ Len(rootChildren) = Cardinality(EmptySquares(state))
    /\ Len(rootChildren) = TTTEmpty
    /\ result # nodes[rootChildren[1]].action
    /\ nodes[rootChildren[1]].numVisits >= 2

\* C12: with a time budget of 0, minIterations 0 and a terminal root state,
\* hpp's calculateAction, once called, returns an action: it is not stuck in the
\* fallback.
C12_TerminalRootReturns ==
    (cfg.rev = "hpp" /\ cfg.time = 0 /\ cfg.minIterations = 0
       /\ TTTisTerminal(state)) =>
        pc # "hung"

(***************************************************************************)
(* The lifetime of MCTS objects (include/mcts/mcts.hpp): a caller makes    *)
(* engines with the constructor, which takes three new policy objects, and *)
(* with the defaulted copy and move constructors, and destroys them.  The  *)
(* defaulted assignments are deleted functions, because the class has      *)
(* const members.  own.engines[e] holds the three pointers of engine e and *)
(* own.deletes[p] counts the delete expressions evaluated on policy p.     *)
(***************************************************************************)
InitOwn ==
    /\ game = NoGame
    /\ cfg = DefaultConfig
    /\ state = MockState
    /\ nodes = <<>>
    /\ updates = <<>>
    /\ added = <<>>
    /\ own = NoEngines
    /\ gui = NoGUI
    /\ currentNodeID = 0
    /\ iterations = 0
    /\ genPos = 0
    /\ stream = <<>>
    /\ pc = "caller"
    /\ elapsed = 0
    /\ callIters = 0
    /\ total = 0
    /\ genCalls = 0
    /\ log = <<(<<>>)>>
    /\ passed = <<>>

Alive == {e \in 1 .. Len(own.engines) : own.engines[e].alive}

\* MCTS(rootData, backprop, termination, scoring), on three new policy objects
ConstructMCTS ==
    /\ pc = "caller"
    /\ Len(own.engines) < MaxObjects
    /\ LET p == Len(own.deletes)
       IN own' = [engines |-> Append(own.engines,
                                     [how |-> "new", alive |-> TRUE, backprop |-> p + 1,
                                      termination |-> p + 2, scoring |-> p + 3]),
                  deletes |-> own.deletes \o <<0, 0, 0>>]
    /\ UNCHANGED <<nodes, updates, added, gui, engineVars>>

\* MCTS(const MCTS& other) = default: every member is copied
CopyMCTS ==
    /\ pc = "caller"
    /\ Len(own.engines) < MaxObjects
    /\ \E other \in Alive :
          own' = [own EXCEPT !.engines = Append(@, [own.engines[other] EXCEPT !.how = "copy"])]
    /\ UNCHANGED <<nodes, updates, added, gui, engineVars>>

\* MCTS(MCTS&& other) noexcept = default: the raw pointers are copied and stay
\* in other
MoveMCTS ==
    /\ pc = "caller"
    /\ Len(own.engines) < MaxObjects
    /\ \E other \in Alive :
          own' = [own EXCEPT !.engines = Append(@, [own.engines[other] EXCEPT !.how = "move"])]
    /\ UNCHANGED <<nodes, updates, added, gui, engineVars>>

\* ~MCTS(): delete backprop; delete termination; delete scoring
DestroyMCTS ==
    /\ pc = "caller"
    /\ \E e \in Alive :
          LET m == own.engines[e]
          IN own' = [engines |-> [own.engines EXCEPT ![e].alive = FALSE],
                     deletes |-> [p \in 1 .. Len(own.deletes) |->
                                    IF p \in {m.backprop, m.termination, m.scoring}
                                    THEN own.deletes[p] + 1 ELSE own.deletes[p]]]
    /\ UNCHANGED <<nodes, updates, added, gui, engineVars>>

NextOwn == ConstructMCTS \/ CopyMCTS \/ MoveMCTS \/ DestroyMCTS

SpecOwn == InitOwn /\ [][NextOwn]_vars

\* C13: no policy object is deleted more than once, and once every engine has
\* been destroyed every policy object has been deleted exactly once.
C13_DeletedOnce ==
    /\ \A p \in 1 .. Len(own.deletes) : own.deletes[p] <= 1
    /\ Alive = {} => \A p \in 1 .. Len(own.deletes) : own.deletes[p] = 1

(***************************************************************************)
(* Claims on one iteration of the search loop.                             *)
(***************************************************************************)
\* The Nodes the parent links lead to from n, n included
RECURSIVE PathOf(_, _)
PathOf(ns, n) == IF n = Null THEN {} ELSE {n} \cup PathOf(ns, ns[n].parent)

\* numVisits and scoreSum of the Node at address n before the step, a Node the
\* step creates having none
VisitsBefore(n) == IF n <= Len(nodes) THEN nodes[n].numVisits ELSE 0
SumBefore(n) == IF n <= Len(nodes) THEN nodes[n].scoreSum ELSE 0

\* C14: an iteration of hpp's loop has one playout origin and one terminal score
\* s; every Node from the origin up to the root gets one more visit and
\* updateScore(its state, s) added to its score sum, and the visits and score
\* sums of the other Nodes stay as they are.
C14_BackPropFrame ==
    [][(iterations' = iterations + 1 /\ cfg.rev = "hpp") =>
          \E origin \in 1 .. Len(nodes'), s \in 0 .. ScoreDen :
              \A n \in 1 .. Len(nodes') :
                  IF n \in PathOf(nodes', origin)
                  THEN /\ nodes'[n].numVisits = VisitsBefore(n) + 1
                       /\ nodes'[n].scoreSum
                            = SumBefore(n) + backprop_updateScore(nodes'[n].data, s)
                  ELSE /\ nodes'[n].numVisits = VisitsBefore(n)
                       /\ nodes'[n].scoreSum = SumBefore(n)]_vars

\* an iteration has backpropagated a win from a position two moves below the
\* root, past a Node of the opponent's turn and a sibling left alone
C14_Witness ==
    /\ cfg.rev = "hpp"
    /\ IsBoard(state)
    /\ pc = "search"
    /\ \E n \in 1 .. Len(nodes) :
          /\ nodes[n].parent # Null
          /\ nodes[nodes[n].parent].parent = Root
          /\ nodes[n].numVisits = 1
          /\ nodes[n].scoreSum = 0
          /\ nodes[n].data.current = game.player
          /\ Len(rootChildren) >= 2

\* The game is over in position b: a line is complete or no square is empty
GameOver(b) == won(b) # "NONE" \/ EmptySquares(b) = {}

\* C15: a Node with a terminal state never has a child and its enumerator is as
\* it was constructed; an iteration that reaches such a Node adds no Node and
\* gives it updateScore(its state, score(its state)).  A terminal root stays
\* alone.
C15_TerminalShortCircuit ==
    /\ [](\A n \in 1 .. Len(nodes) :
            GameOver(nodes[n].data) =>
                /\ nodes[n].children = <<>>
                /\ nodes[n].expansion = TTTExpansionStrategy(nodes[n].data))
    /\ [](GameOver(state) => Len(nodes) = 1)
    /\ [][iterations' = iterations + 1 =>
            \A n \in 1 .. Len(nodes) :
                (GameOver(nodes[n].data) /\ nodes'[n].numVisits # nodes[n].numVisits) =>
                    /\ Len(nodes') = Len(nodes)
                    /\ nodes'[n].scoreSum = nodes[n].scoreSum
                         + (IF cfg.rev = "h" /\ n = Root
                            THEN scoring_score(nodes[n].data)
                            ELSE backprop_updateScore(nodes[n].data,
                                                      scoring_score(nodes[n].data)))]_vars

\* the descent has reached a won position below the root, which has an empty
\* square, a second time
C15_Witness ==
    \E n \in 2 .. Len(nodes) :
        /\ GameOver(nodes[n].data)
        /\ EmptySquares(nodes[n].data) # {}
        /\ nodes[n].numVisits >= 2
        /\ cfg.minT = DEFAULT_MIN_T

\* The Node the selection loop of this iteration stopped at: the deepest Node
\* of the tree as it was before the iteration that the iteration has visited
Descended ==
    CHOOSE d \in 1 .. Len(nodes) :
        /\ nodes'[d].numVisits # nodes[d].numVisits
        /\ \A i \in 1 .. Len(nodes[d].children) :
              nodes'[nodes[d].children[i]].numVisits = nodes[nodes[d].children[i]].numVisits

\* C16: an iteration adds at most one Node; it adds one exactly when the Node
\* the selection stopped at is not terminal and has numVisits >= minT, as the
\* last child of that Node, and the playout starts there; otherwise no list of
\* children changes and the playout starts at the Node the selection stopped at.
C16_ExpansionGate ==
    [][iterations' = iterations + 1 =>
        LET d == Descended
            grows == ~GameOver(nodes[d].data) /\ nodes[d].numVisits >= cfg.minT
            new == Len(nodes) + 1
        IN /\ Len(nodes') = (IF grows THEN new ELSE Len(nodes))
           /\ \A n \in 1 .. Len(nodes) :
                 nodes'[n].children = (IF grows /\ n = d
                                       THEN Append(nodes[n].children, new)
                                       ELSE nodes[n].children)
           /\ grows => /\ nodes'[new].parent = d
                       /\ nodes'[new].children = <<>>
                       /\ nodes'[new].numVisits = 1]_vars

\* with the default threshold the root was visited five times without a child
\* and has then got two
C16_Witness ==
    /\ cfg.minT = DEFAULT_MIN_T
    /\ Len(nodes[Root].children) >= 2
    /\ nodes[Root].numVisits >= DEFAULT_MIN_T + 2
    /\ pc = "search"

\* The children of Node p the iteration has visited
Visited(p) ==
    {i \in 1 .. Len(nodes[p].children) :
        nodes'[nodes[p].children[i]].numVisits # nodes[nodes[p].children[i]].numVisits}

\* The positions in the children of Node p whose UCT score no child exceeds
Maximal(p) ==
    {i \in 1 .. Len(nodes[p].children) :
        \A j \in 1 .. Len(nodes[p].children) :
            ~FloatGt(uctScore(nodes[p], nodes[nodes[p].children[j]]),
                     uctScore(nodes[p], nodes[nodes[p].children[i]]))}

\* C17: where the selection of an iteration passes through a Node with
\* numVisits >= minVisits it goes on to the first child that attains the
\* greatest UCT score; through a Node with numVisits < minVisits it goes on to
\* one child, and select() on such a Node can return each of its children.
C17_Select ==
    /\ [][iterations' = iterations + 1 =>
            \A p \in 1 .. Len(nodes) :
                Visited(p) # {} =>
                    /\ Cardinality(Visited(p)) = 1
                    /\ nodes[p].numVisits >= cfg.minVisits =>
                          /\ Maximal(p) # {}
                          /\ \A i \in Visited(p) :
                                i \in Maximal(p) /\ \A j \in Maximal(p) : i <= j]_vars
    /\ [](\A p \in 1 .. Len(nodes) :
            (/\ genPos = Len(stream)
             /\ nodes[p].children # <<>>
             /\ Len(nodes[p].children) <= DrawRange
             /\ nodes[p].numVisits < cfg.minVisits) =>
                {o.child : o \in select(nodes, p, genPos, stream)}
                    = {nodes[p].children[i] : i \in 1 .. Len(nodes[p].children)})

\* the selection has passed through the root both below and above minVisits,
\* and at the root two children have different UCT scores
C17_Witness ==
    /\ cfg.minVisits = DEFAULT_MIN_VISITS
    /\ cfg.minT = 0
    /\ Len(nodes[Root].children) = 2
    /\ ~shouldExpand(nodes[Root])
    /\ nodes[Root].numVisits > DEFAULT_MIN_VISITS
    /\ FloatGt(uctScore(nodes[Root], nodes[nodes[Root].children[2]]),
               uctScore(nodes[Root], nodes[nodes[Root].children[1]]))

\* C18: between iterations and after calculateAction every Node but the root
\* has numVisits >= 1, so its average score is a number; the selection loop
\* calls select() only on a Node with a child, select() returns one of the
\* children, and the loop ends on a Node.
C18_ChildrenVisited ==
    /\ \A n \in 2 .. Len(nodes) :
          nodes[n].numVisits >= 1 /\ getAvgScore(nodes[n]).kind = "fin"
    /\ \A p \in 1 .. Len(nodes) :
          ~shouldExpand(nodes[p]) =>
              /\ nodes[p].children # <<>>
              /\ \A o \in select(nodes, p, genPos, stream) :
                    \E i \in 1 .. Len(nodes[p].children) : o.child = nodes[p].children[i]
    /\ \A o \in descend(nodes, Root, genPos, stream) : o.selected \in 1 .. Len(nodes)

\* a second call has returned from a tree in which select() was used on the
\* root and on a child of the root
C18_Witness ==
    /\ pc = "idle"
    /\ calls = 2
    /\ ~shouldExpand(nodes[Root])
    /\ \E i \in 1 .. Len(nodes[Root].children) :
          /\ nodes[nodes[Root].children[i]].children # <<>>
          /\ nodes[nodes[Root].children[i]].numVisits >= 3

\* The visits of the children of Node n together
ChildVisits(n) ==
    SeqSum([i \in 1 .. Len(nodes[n].children) |-> nodes[nodes[n].children[i]].numVisits])

\* C19: the numVisits of every Node is the number of finished iterations whose
\* backpropagation went through it; the root's is the number of finished
\* iterations of the engine; no Node has fewer visits than its children together.
C19_VisitsCountPasses ==
    /\ Len(passed) = Len(nodes)
    /\ \A n \in 1 .. Len(nodes) :
          /\ nodes[n].numVisits = passed[n]
          /\ nodes[n].numVisits >= ChildVisits(n)
    /\ nodes[Root].numVisits = total

\* in a second call a Node below the root has more visits than its children
\* together
C19_Witness ==
    /\ calls = 2
    /\ total >= 5
    /\ \E n \in 2 .. Len(nodes) :
          nodes[n].children # <<>> /\ nodes[n].numVisits > ChildVisits(n)

\* The positions in the children of Node p that hold Node n
Occurs(p, n) == {i \in 1 .. Len(nodes[p].children) : nodes[p].children[i] = n}

\* C20: the root has no parent and is in no list of children; every other Node
\* has a parent that was created before it, is once in the children of that
\* parent and in no other list, so the parent links of every Node lead to the
\* root; a step removes no Node, changes no Node's parent, state or action, and
\* leaves every list of children a prefix of what it becomes.
C20_TreeOnlyGrows ==
    /\ [](/\ nodes[Root].parent = Null
          /\ \A p \in 1 .. Len(nodes) :
                /\ Occurs(p, Root) = {}
                /\ \A i \in 1 .. Len(nodes[p].children) :
                      nodes[p].children[i] \in 2 .. Len(nodes)
          /\ \A n \in 2 .. Len(nodes) :
                /\ nodes[n].parent \in 1 .. (n - 1)
                /\ Root \in PathOf(nodes, n)
                /\ \A p \in 1 .. Len(nodes) :
                      Cardinality(Occurs(p, n)) = (IF p = nodes[n].parent THEN 1 ELSE 0))
    /\ [][/\ Len(nodes') >= Len(nodes)
          /\ \A n \in 1 .. Len(nodes) :
                /\ nodes'[n].parent = nodes[n].parent
                /\ nodes'[n].id = nodes[n].id
                /\ nodes'[n].data = nodes[n].data
                /\ nodes'[n].action = nodes[n].action
                /\ Len(nodes'[n].children) >= Len(nodes[n].children)
                /\ SubSeq(nodes'[n].children, 1, Len(nodes[n].children))
                      = nodes[n].children]_vars

\* a tree of three levels in which a Node below the root has two children
C20_Witness ==
    /\ Len(nodes[Root].children) >= 2
    /\ \E n \in 2 .. Len(nodes) :
          /\ Len(nodes[n].children) >= 2
          /\ nodes[n].parent = Root

\* C21: the state of every Node but the root is its action executed on the
\* state of its parent, the root holds the state the engine was given, and no
\* step changes the state of a Node.
C21_StateIsActionOnParent ==
    /\ [](/\ nodes[Root].data = state
          /\ \A n \in 2 .. Len(nodes) :
                nodes[n].data = Action_execute(nodes[n].action, nodes[nodes[n].parent].data))
    /\ [][\A n \in 1 .. Len(nodes) : nodes'[n].data = nodes[n].data]_vars

\* a Node two moves below the root has been the origin of a playout and has
\* been expanded
C21_Witness ==
    \E n \in 2 .. Len(nodes) :
        /\ nodes[n].parent # Root
        /\ nodes[n].children # <<>>
        /\ nodes[n].numVisits >= 2

\* The enumerator of a Node with state data after k calls of generateNext, and
\* the actions those calls returned
RECURSIVE Enumerated(_, _)
Enumerated(data, k) ==
    IF k = 0 THEN [expansion |-> NewStrategy(data), actions |-> <<>>]
    ELSE LET before == Enumerated(data, k - 1)
             g == E_generateNext(before.expansion, data)
         IN [expansion |-> g.expansion, actions |-> Append(before.actions, g.action)]

\* C22: the actions of the children of every Node, in the order of the list,
\* are the first actions its enumerator produces, as many as it has children,
\* and the enumerator has been asked for no more.
C22_ChildrenArePrefix ==
    \A n \in 1 .. Len(nodes) :
        LET e == Enumerated(nodes[n].data, Len(nodes[n].children))
        IN /\ [i \in 1 .. Len(nodes[n].children) |-> nodes[nodes[n].children[i]].action]
                 = e.actions
           /\ nodes[n].expansion = e.expansion

\* the root has a child for each of three empty squares and one of them has
\* two children
C22_Witness ==
    /\ Len(nodes[Root].children) = 3
    /\ \E n \in 2 .. Len(nodes) : Len(nodes[n].children) = 2

(***************************************************************************)
(* The driver of include/mcts/mcts.hpp on the combination lock with an     *)
(* enumerator that, like MockExpansionStrategy, never has an action.       *)
(***************************************************************************)
StuckGames ==
    UNION {UNION {[numTurns : {t}, maxChoice : {m},
                   correctNumbers : [1 .. t -> 0 .. m],
                   hooks : {"stuck"}, draw : {0}] : m \in 0 .. MaxChoices} :
           t \in 1 .. MaxTurns}

StuckConfigs ==
    [rev : {"hpp"}, time : {0}, minIterations : 0 .. MaxIter,
     C10 : {DEFAULT_C10}, minT : {0, DEFAULT_MIN_T},
     minVisits : {0, DEFAULT_MIN_VISITS}]

InitStuck ==
    /\ game \in StuckGames
    /\ cfg \in StuckConfigs
    /\ \E p \in Prefixes(game, MaxTurns) :
          state = [TestGameState(game.numTurns, game.maxChoice) EXCEPT !.choices = p]
    /\ InitEngine(state)
    /\ updates = <<>>
    /\ added = <<>>
    /\ own = NoEngines
    /\ gui = NoGUI

NextStuck == Call(MaxCalls) \/ Iterate \/ Finish

SpecStuck == InitStuck /\ [][NextStuck]_vars

\* C23: a Node whose state is not terminal and whose enumerator has no action
\* from the start never gets a child (generateNext() is not called on it).
C23_StuckNeverExpanded ==
    \A n \in 1 .. Len(nodes) :
        (/\ ~termination_isTerminal(nodes[n].data)
         /\ ~E_canGenerateNext(NewStrategy(nodes[n].data), nodes[n].data)) =>
            nodes[n].children = <<>>

\* The Nodes of the tree with id i
WithID(i) == {n \in 1 .. Len(nodes) : nodes[n].id = i}

\* C24: the root has id 0, the k-th Node that expansion created has id k, so
\* the ids of a tree of n Nodes are 0 .. n-1, each once, and the id of a child
\* is greater than the id of its parent.
C24_UniqueIDs ==
    /\ nodes[Root].id = 0
    /\ currentNodeID = Len(nodes) - 1
    /\ \A i \in 0 .. (Len(nodes) - 1) : Cardinality(WithID(i)) = 1
    /\ \A n \in 1 .. Len(nodes) :
          /\ nodes[n].id = n - 1
          /\ nodes[n].parent # Null => nodes[n].id > nodes[nodes[n].parent].id

\* a tree of six Nodes, the last of which is not a child of the root
C24_Witness ==
    /\ Len(nodes) >= 6
    /\ nodes[Len(nodes)].parent # Root

(***************************************************************************)
(* The end of an engine.  hpp: the root, the children lists and the parent *)
(* members are std::shared_ptr, and a Node is destroyed when the last      *)
(* pointer to it is released; h: ~MCTS deletes the root and ~Node deletes  *)
(* the children.  own.deletes[n] counts the destructions of Node n.        *)
(***************************************************************************)
\* use_count() of every Node while the engine holds the root
UseCounts(ns) ==
    [n \in 1 .. Len(ns) |->
        (IF n = Root THEN 1 ELSE 0)
        + SeqSum([p \in 1 .. Len(ns) |->
                    Cardinality({i \in 1 .. Len(ns[p].children) : ns[p].children[i] = n})])
        + Cardinality({c \in 1 .. Len(ns) : ns[c].parent = n})]

\* A shared_ptr to Node n is released: the count drops and at 0 the Node is
\* destroyed, which releases its children list and then its parent member
RECURSIVE releasePtr(_, _, _)
RECURSIVE releaseAll(_, _, _, _)
releaseAll(ns, st, ptrs, i) ==
    IF i > Len(ptrs) THEN st
    ELSE releaseAll(ns, releasePtr(ns, st, ptrs[i]), ptrs, i + 1)

releasePtr(ns, st, n) ==
    IF n = Null THEN st
    ELSE LET s1 == [st EXCEPT !.cnt[n] = @ - 1]
         IN IF s1.cnt[n] # 0 THEN s1
            ELSE releasePtr(ns, releaseAll(ns, [s1 EXCEPT !.del[n] = @ + 1],
                                           ns[n].children, 1),
                            ns[n].parent)

\* delete node of src/mcts.h: ~Node deletes every child
RECURSIVE deleteNode(_, _, _)
RECURSIVE deleteAll(_, _, _, _)
deleteAll(ns, del, ptrs, i) ==
    IF i > Len(ptrs) THEN del
    ELSE deleteAll(ns, deleteNode(ns, del, ptrs[i]), ptrs, i + 1)

deleteNode(ns, del, n) ==
    deleteAll(ns, [del EXCEPT ![n] = @ + 1], ns[n].children, 1)

NoDeletes == [n \in 1 .. Len(nodes) |-> 0]

\* ~MCTS() and the destruction of the members that follows it
DestroyEngine ==
    /\ pc = "idle"
    /\ pc' = "destroyed"
    /\ own' = [engines |-> <<>>,
               deletes |-> IF cfg.rev = "hpp"
                           THEN releasePtr(nodes, [cnt |-> UseCounts(nodes),
                                                   del |-> NoDeletes], Root).del
                           ELSE deleteNode(nodes, NoDeletes, Root)]
    /\ UNCHANGED <<game, cfg, state, nodes, currentNodeID, iterations, genPos,
                   stream, elapsed, callIters, total, genCalls, log, passed,
                   updates, added, gui>>

NextFree == Call(1) \/ Iterate \/ Finish \/ NullBest \/ Hang \/ DestroyEngine

SpecFree == InitTTT /\ [][NextFree]_vars

\* C25: when the engine has been destroyed every Node of its tree has been
\* destroyed, once.
C25_AllNodesReleased ==
    pc = "destroyed" => \A n \in 1 .. Len(nodes) : own.deletes[n] = 1

(***************************************************************************)
(* The tic-tac-toe engine with small and negative values of setMinT().     *)
(***************************************************************************)
GateConfigs ==
    [rev : {"hpp", "h"}, time : {0}, minIterations : 0 .. TTTIters,
     C10 : {DEFAULT_C10}, minT : -1 .. MaxGate, minVisits : {0}]

InitGate ==
    /\ state \in TTTRoots
    /\ game = TTTGame(state)
    /\ cfg \in GateConfigs
    /\ InitEngine(state)
    /\ updates = <<>>
    /\ added = <<>>
    /\ own = NoEngines
    /\ gui = NoGUI

SpecGate == InitGate /\ [][NextTTT]_vars

\* The greater of two integers
Max(a, b) == IF a >= b THEN a ELSE b

\* C26 as it is stated: every Node with a child has max(minT, 0) visits more
\* than its children together.
C26_OriginMinT ==
    \A n \in 1 .. Len(nodes) :
        nodes[n].children # <<>> =>
            nodes[n].numVisits = Max(cfg.minT, 0) + ChildVisits(n)

\* C26, amended: the root with a child has max(minT, 0) visits more than its
\* children together; every other Node with a child has max(minT, 1) more,
\* because the playout of the iteration that created it started at it.
C26_OriginCount ==
    \A n \in 1 .. Len(nodes) :
        nodes[n].children # <<>> =>
            nodes[n].numVisits
                = Max(cfg.minT, IF n = Root THEN 0 ELSE 1) + ChildVisits(n)

\* with a threshold of two a Node below the root has got a child
C26_Witness ==
    /\ cfg.minT = 2
    /\ \E n \in 2 .. Len(nodes) : nodes[n].children # <<>>

\* C27: the selection of an iteration passes only through Nodes that cannot
\* be expanded further and have numVisits >= minT + the number of their
\* children; the generator advances only in an iteration that passes through a
\* Node with numVisits < minVisits, which needs minVisits > minT + the number
\* of its children; with the default minT and minVisits it never advances.
C27_RandomBranch ==
    /\ []((cfg.minT = DEFAULT_MIN_T /\ cfg.minVisits = DEFAULT_MIN_VISITS) =>
             genPos = 0 /\ stream = <<>>)
    /\ [][iterations' = iterations + 1 =>
            /\ \A p \in 1 .. Len(nodes) :
                  Visited(p) # {} =>
                      /\ ~shouldExpand(nodes[p])
                      /\ nodes[p].numVisits >= cfg.minT + Len(nodes[p].children)
            /\ genPos' # genPos =>
                  \E p \in 1 .. Len(nodes) :
                      /\ Visited(p) # {}
                      /\ nodes[p].numVisits < cfg.minVisits
                      /\ cfg.minVisits > cfg.minT + Len(nodes[p].children)]_vars

\* with the default minT and minVisits select() has been called on the root
C27_Witness ==
    /\ cfg.minT = DEFAULT_MIN_T
    /\ cfg.minVisits = DEFAULT_MIN_VISITS
    /\ ~shouldExpand(nodes[Root])
    /\ nodes[Root].numVisits > DEFAULT_MIN_T + Len(nodes[Root].children)
    /\ genPos = 0

(***************************************************************************)
(* The combination lock with setTime(0) and setMinIterations() of a        *)
(* negative number, 0 or 1.  Of the 2^32 - 1 iterations hpp makes for -1   *)
(* the first MaxIter are followed.                                         *)
(***************************************************************************)
NegConfigs ==
    [rev : {"hpp", "h"}, time : {0}, minIterations : (0 - MaxNeg) .. 1,
     C10 : {DEFAULT_C10}, minT : {0, DEFAULT_MIN_T},
     minVisits : {0, DEFAULT_MIN_VISITS}]

InitNeg ==
    /\ game \in Games(1 .. MaxTurns, 0 .. MaxChoices, {"seeded", "random"})
    /\ cfg \in NegConfigs
    /\ \E p \in Prefixes(game, MaxTurns) :
          state = [TestGameState(game.numTurns, game.maxChoice) EXCEPT !.choices = p]
    /\ InitEngine(state)
    /\ updates = <<>>
    /\ added = <<>>
    /\ own = NoEngines
    /\ gui = NoGUI

NextNeg == Call(1) \/ Iterate \/ Finish \/ NullBest

SpecNeg == InitNeg /\ [][NextNeg]_vars

\* C28: with setTime(0) and minIterations <= 0 an engine that was just
\* constructed makes no iteration in calculateAction().
C28_NoIterations ==
    (cfg.time = 0 /\ cfg.minIterations <= 0) => iterations = 0 /\ Len(nodes) = 1

(***************************************************************************)
(* The window of the tic-tac-toe sample: samples/tictactoe/GUI.cpp.  The   *)
(* slots run one at a time on the event loop; a behaviour is an order in   *)
(* which the loop delivers the button, the clicks on the scene and the     *)
(* timeout of the single-shot timer.                                       *)
(***************************************************************************)
\* GUI::GUI: the default Board, both players "Human" (index 0), the button
\* enabled, the scene's signal not connected, the timer not started
NewGUI ==
    [shown |-> TRUE, board |-> Board, human |-> [CROSS |-> TRUE, CIRCLE |-> TRUE],
     enabled |-> TRUE, connected |-> FALSE, timer |-> FALSE]

InitGUI ==
    /\ game = NoGame
    /\ cfg = DefaultConfig
    /\ state = MockState
    /\ nodes = <<>>
    /\ updates = <<>>
    /\ added = <<>>
    /\ own = NoEngines
    /\ gui = NewGUI
    /\ currentNodeID = 0
    /\ iterations = 0
    /\ genPos = 0
    /\ stream = <<>>
    /\ pc = "gui"
    /\ elapsed = 0
    /\ callIters = 0
    /\ total = 0
    /\ genCalls = 0
    /\ log = <<(<<>>)>>
    /\ passed = <<>>

\* GUI::isCurrentPlayerHuman
isCurrentPlayerHuman == gui.human[gui.board.current]

\* GUI::playMove: the move is played on the Board and the timer is started
playMove(x, y) == [gui EXCEPT !.board = play(@, x, y), !.timer = TRUE]

\* GUI::endGame
endGame == [gui EXCEPT !.enabled = TRUE, !.connected = FALSE]

\* TTTMCTSPlayer::calculateAction(board) on a Board that is not decided: the
\* action of a child of the root, which the root's enumerator produced, or the
\* action the fallback's generateRandom stored
AIActions(b) ==
    {Enumerated(b, k).actions[k] : k \in 1 .. Cardinality(EmptySquares(b))}
        \cup TTTgenerateRandom(b)

\* The user chooses the players in the combo boxes, which are enabled
selectPlayers ==
    /\ gui.enabled
    /\ \E h \in [{"CROSS", "CIRCLE"} -> BOOLEAN] :
          h # gui.human /\ gui' = [gui EXCEPT !.human = h]
    /\ UNCHANGED <<nodes, updates, added, own, engineVars>>

\* GUI::newGame, the slot of the start button
newGame ==
    /\ gui.enabled
    /\ gui' = [gui EXCEPT !.enabled = FALSE, !.connected = TRUE,
                          !.board = Board, !.timer = TRUE]
    /\ UNCHANGED <<nodes, updates, added, own, engineVars>>

\* GUI::boardClicked, the slot of selectionChanged(): the user has selected
\* the item of an empty square
boardClicked ==
    /\ gui.connected
    /\ \E a \in EmptySquares(gui.board) :
          gui' = IF isCurrentPlayerHuman THEN playMove(a.x, a.y) ELSE gui
    /\ UNCHANGED <<nodes, updates, added, own, engineVars>>

\* GUI::movePlayed, the slot of the timer's timeout()
movePlayed ==
    /\ gui.timer
    /\ LET fired == [gui EXCEPT !.timer = FALSE]
       IN IF won(gui.board) # "NONE" \/ gui.board.turns >= 9
          THEN gui' = [endGame EXCEPT !.timer = FALSE]
          ELSE IF ~isCurrentPlayerHuman
          THEN \E a \in AIActions(gui.board) :
                  gui' = [fired EXCEPT !.board = play(@, a.x, a.y), !.timer = TRUE]
          ELSE gui' = fired
    /\ UNCHANGED <<nodes, updates, added, own, engineVars>>

NextGUI == selectPlayers \/ newGame \/ boardClicked \/ movePlayed

SpecGUI == InitGUI /\ [][NextGUI]_vars

\* C29: a Board that is decided changes only by the start of a new game, and
\* every other change of the Board is a move of the current player on an empty
\* square.
C29_NoMoveOnDecidedBoard ==
    [][gui'.board # gui.board =>
          \/ gui'.board = Board
          \/ /\ ~GameOver(gui.board)
             /\ \E a \in EmptySquares(gui.board) :
                   gui'.board = play(gui.board, a.x, a.y)]_vars

(***************************************************************************)
(* The two revisions side by side.  They share Node, select, expandNext    *)
(* and simulate; they differ in backProp, in the loop condition and in     *)
(* what calculateAction does without a child of the root.                  *)
(***************************************************************************)
\* backProp(node, score) of the revision that is not the engine's: src/mcts.h
\* for an engine of hpp, include/mcts/mcts.hpp for an engine of h
RECURSIVE backPropOther(_, _, _)
backPropOther(ns, node, sc) ==
    IF ns[node].parent = Null /\ cfg.rev = "hpp"
    THEN [ns EXCEPT ![node] = update(@, sc)]
    ELSE LET ns1 == [ns EXCEPT ![node] = update(@, backprop_updateScore(@.data, sc))]
         IN IF ns[node].parent = Null THEN ns1
            ELSE backPropOther(ns1, ns[node].parent, sc)

\* The tree after the expansion of the iteration and before its backProp
Unvisited(after, before) ==
    [n \in 1 .. Len(after) |->
        [after[n] EXCEPT
            !.numVisits = IF n <= Len(before) THEN before[n].numVisits ELSE 0,
            !.scoreSum = IF n <= Len(before) THEN before[n].scoreSum ELSE 0]]
BeforeBackProp == Unvisited(nodes', nodes)

\* The tree without the score sum of the root
BelowRoot(ns) == [ns EXCEPT ![Root].scoreSum = 0]

====
